---- MODULE Spec2Model ----
(***************************************************************************)
(* A model of src/util/src/tqueue.c: FIFO queues of heap nodes, batch     *)
(* views (STaosQall) over a drained chain, and queue sets (STaosQset)     *)
(* with a round-robin cursor.  Threads call the functions of the file;    *)
(* a step of a thread runs from one blocking point (pthread_mutex_lock,   *)
(* or a read of shared data made outside any lock) to the next.           *)
(***************************************************************************)
EXTENDS Integers, Sequences, FiniteSets, TLC

NULL == 0

\* bounds of the model: the nodes ever allocated, and how far below zero the
\* removals may take numOfQueues
MaxNodes == 3
MaxUnder == 1

Threads == {1, 2}
Queues == {1, 2, 3}
Sets == {1, 2}
Nodes == 1..MaxNodes

\* the payload the caller passes to the k-th taosWriteQitem
ItemOf(k) == 16 * k + 7

VARIABLES
  qu,      \* STaosQueue objects: numOfItems, head, tail, next, qset, mutex
  qs,      \* STaosQset objects: head, current, mutex, numOfQueues, numOfItems
  node,    \* STaosQnode objects: next, item
  heap,    \* the nodes that are allocated and not yet freed
  qall,    \* the STaosQall each thread holds (or NoQall)
  th,      \* per thread: position, arguments and locals of the running call
  qstate,  \* per queue: "open", "closing" (inside taosCloseQueue), "closed" (freed)
  ub,      \* TRUE once freed memory has been dereferenced
  ret,     \* what the call that has just returned gave back (or NoRet)
  cfg,     \* the threads, queues and sets a run uses
  nalloc,  \* number of nodes allocated so far
  enqLog,  \* history: per queue, the <<node, value>> enqueued, in lock order
  outLog,  \* history: per queue, the <<node, value>> handed out, in order
  pollLog  \* history: per set, the queues served by the latest pollOne calls

vars == <<qu, qs, node, heap, qall, th, qstate, ub, ret, cfg, nalloc, enqLog, outLog, pollLog>>

\* no STaosQall; batch and seen are history: the <<node, value>> the view was
\* given, and those taosGetQitem has yielded since the view was created or reset
NoQall == [current |-> NULL, start |-> NULL, numOfItems |-> 0, live |-> FALSE,
           batch |-> <<>>, seen |-> <<>>]
NoPolls == [ok |-> FALSE, served |-> <<>>]
NoPre == [qu |-> <<>>, qs |-> <<>>]

\* calloc(sizeof(STaosQueue), 1) and pthread_mutex_init
taosOpenQueue == [numOfItems |-> 0, head |-> NULL, tail |-> NULL,
                  next |-> NULL, qset |-> NULL, mutex |-> NULL]

\* calloc(sizeof(STaosQset), 1) and pthread_mutex_init
taosOpenQset == [head |-> NULL, current |-> NULL, mutex |-> NULL,
                 numOfQueues |-> 0, numOfItems |-> 0]

\* a thread in a call of op on queue q and set s, with the call's locals;
\* pre is history: the queues and sets as they were when a longer call began
Call(op, q, s) ==
  [pc |-> "idle", op |-> op, q |-> q, s |-> s,
   i |-> 0, queue |-> NULL, tqueue |-> NULL, prev |-> NULL, pNode |-> NULL,
   caller |-> "none", spin |-> 0, pre |-> NoPre]

\* a thread that is in no call
IdleThread == Call("none", NULL, NULL)

NoRet == [t |-> NULL, op |-> "none", q |-> NULL, s |-> NULL, code |-> 0, item |-> 0]

\* the nodes of a chain, from node h on, following next
RECURSIVE Chain(_, _)
Chain(h, nd) == IF h = NULL THEN <<>> ELSE <<h>> \o Chain(nd[h].next, nd)

\* the queues of a member list, from queue h on, following next; fuel stops
\* the walk on a list that has become cyclic
RECURSIVE Members(_, _, _)
Members(h, q, fuel) ==
  IF h = NULL \/ fuel = 0 THEN <<>> ELSE <<h>> \o Members(q[h].next, q, fuel - 1)

Range(f) == {f[x] : x \in DOMAIN f}

AllOps == {"write", "read", "readall", "getq", "reset", "free",
           "add", "remove", "poll", "drain", "close"}

\* c says what the run uses: the calls each thread makes, the queues and sets
\* they are made on, the queues that are written to, the number of nodes
\* allocated, the history that is kept, and whether calloc may return NULL;
\* Q and S are the queues and sets
InitWith(c, Q, S) ==
  /\ qu = Q
  /\ qs = S
  /\ node = [n \in Nodes |-> [next |-> NULL, item |-> 0]]
  /\ heap = {}
  /\ qall = [t \in Threads |-> NoQall]
  /\ th = [t \in Threads |-> IdleThread]
  /\ qstate = [q \in Queues |-> "open"]
  /\ ub = FALSE
  /\ ret = NoRet
  /\ cfg = c
  /\ nalloc = 0
  /\ enqLog = [q \in Queues |-> <<>>]
  /\ outLog = [q \in Queues |-> <<>>]
  /\ pollLog = [s \in Sets |-> NoPolls]

Opened == [q \in Queues |-> taosOpenQueue]
OpenedSets == [s \in Sets |-> taosOpenQset]

\* the whole program: a thread that manages and fills queues 1 and 2 of set 1,
\* and a thread that fills, adds and consumes
Init ==
  InitWith([threads |-> (1 :> {"write", "add", "remove", "close"}) @@
                        (2 :> {"write", "add", "read", "readall", "getq", "reset",
                               "free", "poll", "drain"}),
            queues |-> {1, 2}, sets |-> {1}, filled |-> {1},
            nodes |-> MaxNodes - 1, ret |-> FALSE, pre |-> FALSE, nomem |-> FALSE],
           Opened, OpenedSets)

\* one thread that changes the membership of two queues in two sets, fills,
\* polls and closes them
InitSet ==
  InitWith([threads |-> (1 :> AllOps), queues |-> {1, 2}, sets |-> {1, 2},
            filled |-> {1, 2}, nodes |-> MaxNodes - 1, ret |-> TRUE, pre |-> TRUE, nomem |-> FALSE],
           Opened, OpenedSets)

\* one thread that changes the membership of three queues in one set, fills
\* and polls them
InitPoll ==
  InitWith([threads |-> (1 :> AllOps), queues |-> {1, 2, 3}, sets |-> {1},
            filled |-> {1, 2, 3}, nodes |-> MaxNodes, ret |-> TRUE, pre |-> TRUE, nomem |-> FALSE],
           Opened, OpenedSets)

\* the state after taosAddIntoQset(1, 1) and taosAddIntoQset(1, 2)
BoundQueues == [Opened EXCEPT ![1].qset = 1, ![2].qset = 1, ![2].next = 1]
BoundSets == [OpenedSets EXCEPT ![1].head = 2, ![1].numOfQueues = 2]

\* two producer and consumer threads on the two queues of set 1, whose
\* membership stays as it is
InitQueue ==
  InitWith([threads |-> (1 :> AllOps) @@ (2 :> AllOps), queues |-> {1, 2}, sets |-> {1},
            filled |-> {1, 2}, nodes |-> MaxNodes - 1, ret |-> TRUE, pre |-> FALSE, nomem |-> FALSE],
           BoundQueues, BoundSets)

\* one consumer thread on the two queues of set 1, with allocations that may
\* fail
InitAlloc ==
  InitWith([threads |-> (1 :> AllOps), queues |-> {1, 2}, sets |-> {1},
            filled |-> {1, 2}, nodes |-> MaxNodes, ret |-> TRUE, pre |-> TRUE,
            nomem |-> TRUE],
           BoundQueues, BoundSets)

\* thread t may begin a call of op
Begin(t, op) == /\ ~ub
                /\ t \in DOMAIN cfg.threads
                /\ op \in cfg.threads[t]
                /\ th[t].pc = "idle"

CanUse(q) == q \in cfg.queues /\ qstate[q] = "open"

\* history: the state when a call began, kept in the runs of one thread, where
\* it is the state the call worked on
Snapshot == IF cfg.pre THEN [qu |-> qu, qs |-> qs] ELSE NoPre

\* thread t returns from its call with result code and, in item, the bytes
\* copied to the caller's buffer
Return(t, op, q, s, code, item) ==
  /\ th' = [th EXCEPT ![t] = IdleThread]
  /\ ret' = IF cfg.ret
            THEN [t |-> t, op |-> op, q |-> q, s |-> s, code |-> code, item |-> item]
            ELSE NoRet

\* thread t goes on inside its call
Goto(t, me) ==
  /\ th' = [th EXCEPT ![t] = me]
  /\ ret' = NoRet

\* atomic_add_fetch_32 / atomic_sub_fetch_32 on qset->numOfItems
AtomicAdd(S, s, d) == [S EXCEPT ![s].numOfItems = @ + d]

----------------------------------------------------------------------------
\* a failed call that has taken the chain off the queue all the same
AllocFailed_detached(Q, q) ==
  [Q EXCEPT ![q].head = NULL, ![q].tail = NULL, ![q].numOfItems = 0]

\* the queue and its chain after a call whose calloc returned NULL
AllocFailed(Q, q) == Q

\* taosWriteQitem: calloc (which may return NULL) and memcpy, then the critical
\* section of queue->mutex
taosWriteQitem(t, q) ==
  /\ Begin(t, "write") /\ CanUse(q) /\ q \in cfg.filled
  /\ \/ /\ nalloc < cfg.nodes
        /\ qu[q].mutex = NULL
        /\ LET pNode == nalloc + 1
               v == ItemOf(nalloc + 1) IN
           /\ nalloc' = pNode
           /\ heap' = heap \cup {pNode}
           /\ node' = IF qu[q].tail # NULL
                      THEN [node EXCEPT ![pNode] = [next |-> NULL, item |-> v],
                                        ![qu[q].tail].next = pNode]
                      ELSE [node EXCEPT ![pNode] = [next |-> NULL, item |-> v]]
           /\ qu' = IF qu[q].tail # NULL
                    THEN [qu EXCEPT ![q].tail = pNode, ![q].numOfItems = @ + 1]
                    ELSE [qu EXCEPT ![q].head = pNode, ![q].tail = pNode,
                                    ![q].numOfItems = @ + 1]
           /\ qs' = IF qu[q].qset # NULL THEN AtomicAdd(qs, qu[q].qset, 1) ELSE qs
           /\ enqLog' = [enqLog EXCEPT ![q] = Append(@, <<pNode, v>>)]
        /\ Return(t, "write", q, NULL, 0, ItemOf(nalloc + 1))
     \/ /\ cfg.nomem
        /\ qu' = AllocFailed(qu, q)
        /\ Return(t, "write", q, NULL, -1, 0)
        /\ UNCHANGED <<nalloc, heap, node, qs, enqLog>>
  /\ UNCHANGED <<qall, qstate, ub, cfg, outLog, pollLog>>

\* a dequeue that leaves the node it has taken at the head of the queue
ReadQitemQueue_stay(Q, q, nd) == [Q EXCEPT ![q].numOfItems = @ - 1]

\* a dequeue that leaves queue->tail on the node it has taken
ReadQitemQueue_keepTail(Q, q, nd) ==
  LET pNode == Q[q].head IN
  [Q EXCEPT ![q].head = nd[pNode].next, ![q].numOfItems = @ - 1]

\* the body of taosReadQitem inside queue->mutex: the queue after the call
ReadQitemQueue(Q, q, nd) ==
  LET pNode == Q[q].head IN
  IF nd[pNode].next = NULL
  THEN [Q EXCEPT ![q].head = NULL, ![q].tail = NULL, ![q].numOfItems = @ - 1]
  ELSE [Q EXCEPT ![q].head = nd[pNode].next, ![q].numOfItems = @ - 1]

\* taosReadQitem
taosReadQitem(t, q) ==
  /\ Begin(t, "read") /\ CanUse(q)
  /\ qu[q].mutex = NULL
  /\ IF qu[q].head # NULL
     THEN LET pNode == qu[q].head IN
          /\ qu' = ReadQitemQueue(qu, q, node)
          /\ heap' = heap \ {pNode}
          /\ qs' = IF qu[q].qset # NULL THEN AtomicAdd(qs, qu[q].qset, -1) ELSE qs
          /\ outLog' = [outLog EXCEPT ![q] = Append(@, <<pNode, node[pNode].item>>)]
          /\ Return(t, "read", q, NULL, 1, node[pNode].item)
     ELSE /\ Return(t, "read", q, NULL, 0, 0)
          /\ UNCHANGED <<qu, heap, qs, outLog>>
  /\ UNCHANGED <<node, qall, qstate, ub, cfg, nalloc, enqLog, pollLog>>

\* the <<node, value>> pairs of a chain
Items(h, nd) == [k \in DOMAIN Chain(h, nd) |-> <<Chain(h, nd)[k], nd[Chain(h, nd)[k]].item>>]

\* the STaosQall that taosReadAllQitems and taosReadAllQitemsFromQset build
NewQall(Q, q, nd) ==
  [current |-> Q[q].head, start |-> Q[q].head, numOfItems |-> Q[q].numOfItems,
   live |-> TRUE, batch |-> Items(Q[q].head, nd), seen |-> <<>>]

\* a detach that leaves queue->tail on the last node of the chain
DetachAll_keepTail(Q, q) == [Q EXCEPT ![q].head = NULL, ![q].numOfItems = 0]

\* a detach that leaves the count of the queue as it was
DetachAll_keepCount(Q, q) == [Q EXCEPT ![q].head = NULL, ![q].tail = NULL]

\* the queue after its chain has been handed to a STaosQall
DetachAll(Q, q) == [Q EXCEPT ![q].head = NULL, ![q].tail = NULL, ![q].numOfItems = 0]

\* taosReadAllQitems
taosReadAllQitems(t, q) ==
  /\ Begin(t, "readall") /\ CanUse(q)
  /\ ~qall[t].live
  /\ qu[q].mutex = NULL
  /\ IF qu[q].head # NULL
     THEN \/ /\ qall' = [qall EXCEPT ![t] = NewQall(qu, q, node)]
             /\ qu' = DetachAll(qu, q)
             /\ qs' = IF qu[q].qset # NULL
                      THEN AtomicAdd(qs, qu[q].qset, -qu[q].numOfItems) ELSE qs
             /\ outLog' = [outLog EXCEPT ![q] = @ \o Items(qu[q].head, node)]
             /\ Return(t, "readall", q, NULL, qu[q].numOfItems, 0)
          \/ /\ cfg.nomem
             /\ qu' = AllocFailed(qu, q)
             /\ Return(t, "readall", q, NULL, -1, 0)
             /\ UNCHANGED <<qall, qs, outLog>>
     ELSE /\ Return(t, "readall", q, NULL, 0, 0)
          /\ UNCHANGED <<qall, qu, qs, outLog>>
  /\ UNCHANGED <<node, heap, qstate, ub, cfg, nalloc, enqLog, pollLog>>

\* the STaosQall after taosGetQitem
GetQitemQall(v, nd) ==
  IF v.current # NULL
  THEN [v EXCEPT !.current = nd[v.current].next,
                 !.seen = Append(@, <<v.current, nd[v.current].item>>)]
  ELSE v

\* taosGetQitem
taosGetQitem(t) ==
  /\ Begin(t, "getq")
  /\ qall[t].live
  /\ qall' = [qall EXCEPT ![t] = GetQitemQall(@, node)]
  /\ IF qall[t].current # NULL
     THEN Return(t, "getq", NULL, NULL, 1, node[qall[t].current].item)
     ELSE Return(t, "getq", NULL, NULL, 0, 0)
  /\ UNCHANGED <<qu, qs, node, heap, qstate, ub, cfg, nalloc, enqLog, outLog, pollLog>>

\* a reset that puts the cursor back on the place it is on
ResetQitemsQall_stay(v) == [v EXCEPT !.current = v.current, !.seen = <<>>]

\* the STaosQall after taosResetQitems
ResetQitemsQall(v) == [v EXCEPT !.current = v.start, !.seen = <<>>]

\* taosResetQitems
taosResetQitems(t) ==
  /\ Begin(t, "reset")
  /\ qall[t].live
  /\ qall' = [qall EXCEPT ![t] = ResetQitemsQall(@)]
  /\ Return(t, "reset", NULL, NULL, 0, 0)
  /\ UNCHANGED <<qu, qs, node, heap, qstate, ub, cfg, nalloc, enqLog, outLog, pollLog>>

\* a release that frees the chain from qall->start on
taosFreeQitems_fromStart(t) ==
  /\ Begin(t, "free")
  /\ qall[t].live
  /\ heap' = heap \ Range(Chain(qall[t].start, node))
  /\ qall' = [qall EXCEPT ![t] = NoQall]
  /\ Return(t, "free", NULL, NULL, 0, 0)
  /\ UNCHANGED <<qu, qs, node, qstate, ub, cfg, nalloc, enqLog, outLog, pollLog>>

\* taosFreeQitems: frees the nodes from qall->current on, then the view
taosFreeQitems(t) ==
  /\ Begin(t, "free")
  /\ qall[t].live
  /\ heap' = heap \ Range(Chain(qall[t].current, node))
  /\ qall' = [qall EXCEPT ![t] = NoQall]
  /\ Return(t, "free", NULL, NULL, 0, 0)
  /\ UNCHANGED <<qu, qs, node, qstate, ub, cfg, nalloc, enqLog, outLog, pollLog>>

----------------------------------------------------------------------------
\* a dereference of a queue that taosCloseQueue has freed
Freed(q) == q # NULL /\ qstate[q] = "closed"

\* the member list of set s, as the queues linked from qset->head
MemberList(s) == Members(qs[s].head, qu, Cardinality(Queues) + 1)

\* an add that does not test queue->qset
AddIntoQset_nocheck(t, s, q) ==
  /\ Begin(t, "add") /\ CanUse(q) /\ s \in cfg.sets
  /\ Goto(t, [Call("add", q, s) EXCEPT !.pc = "add_lock_set", !.pre = Snapshot])
  /\ UNCHANGED <<qu, qs, node, heap, qall, qstate, ub, cfg, nalloc, enqLog, outLog, pollLog>>

\* taosAddIntoQset, line 228: the test of queue->qset, made before any lock
AddIntoQset_check(t, s, q) ==
  /\ Begin(t, "add") /\ CanUse(q) /\ s \in cfg.sets
  /\ IF qu[q].qset # NULL
     THEN Return(t, "add", q, s, -1, 0)
     ELSE Goto(t, [Call("add", q, s) EXCEPT !.pc = "add_lock_set",
                                             !.pre = Snapshot])
  /\ UNCHANGED <<qu, qs, node, heap, qall, qstate, ub, cfg, nalloc, enqLog, outLog, pollLog>>

\* taosAddIntoQset, lines 230-234: under qset->mutex, link the queue at the head
AddIntoQset_link(t) ==
  LET s == th[t].s
      q == th[t].q IN
  /\ ~ub /\ th[t].pc = "add_lock_set"
  /\ qs[s].mutex = NULL
  /\ qu' = [qu EXCEPT ![q].next = qs[s].head]
  /\ qs' = [qs EXCEPT ![s].mutex = t, ![s].head = q, ![s].numOfQueues = @ + 1]
  /\ Goto(t, [th[t] EXCEPT !.pc = "add_lock_queue"])
  /\ pollLog' = [pollLog EXCEPT ![s] = NoPolls]
  /\ UNCHANGED <<node, heap, qall, qstate, ub, cfg, nalloc, enqLog, outLog>>

\* taosAddIntoQset, lines 236-243: under queue->mutex, add the count and bind
AddIntoQset_bind(t) ==
  LET s == th[t].s
      q == th[t].q IN
  /\ ~ub /\ th[t].pc = "add_lock_queue"
  /\ qu[q].mutex = NULL
  /\ qs' = [qs EXCEPT ![s].numOfItems = @ + qu[q].numOfItems, ![s].mutex = NULL]
  /\ qu' = [qu EXCEPT ![q].qset = s]
  /\ Return(t, "add", q, s, 0, 0)
  /\ UNCHANGED <<node, heap, qall, qstate, ub, cfg, nalloc, enqLog, outLog, pollLog>>

\* the return of taosRemoveFromQset, to its caller or into taosCloseQueue
RemoveReturn(t, me) ==
  IF me.caller = "close"
  THEN Goto(t, [me EXCEPT !.pc = "close_free"])
  ELSE Return(t, "remove", me.q, me.s, 0, 0)

\* taosRemoveFromQset, lines 252-260: lock qset->mutex, test the head
RemoveFromQset_head(t, s, q, me) ==
  /\ qs[s].mutex = NULL
  /\ IF qs[s].head = NULL
     THEN /\ RemoveReturn(t, me)
          /\ UNCHANGED <<qu, qs, pollLog, ub>>
     ELSE IF qs[s].head = q
     THEN /\ qs[s].numOfQueues > -MaxUnder
          /\ qs' = [qs EXCEPT ![s].head = qu[q].next, ![s].numOfQueues = @ - 1]
          /\ RemoveReturn(t, me)
          /\ pollLog' = [pollLog EXCEPT ![s] = NoPolls]
          /\ UNCHANGED <<qu, ub>>
     ELSE IF Freed(qs[s].head)
     THEN /\ ub' = TRUE
          /\ UNCHANGED <<qu, qs, th, ret, pollLog>>
     ELSE /\ qs' = [qs EXCEPT ![s].mutex = t]
          /\ Goto(t, [me EXCEPT !.pc = "rm_scan", !.prev = qs[s].head,
                                      !.tqueue = qu[qs[s].head].next])
          /\ UNCHANGED <<qu, pollLog, ub>>
  /\ UNCHANGED <<node, heap, qall, qstate, cfg, nalloc, enqLog, outLog>>

\* taosRemoveFromQset, called by a thread
taosRemoveFromQset(t, s, q) ==
  /\ Begin(t, "remove") /\ CanUse(q) /\ s \in cfg.sets
  /\ RemoveFromQset_head(t, s, q, [Call("remove", q, s) EXCEPT !.pre = Snapshot])

\* taosRemoveFromQset, lines 261-266 and 271-275: one pass of the while loop,
\* up to the lock of queue->mutex
RemoveFromQset_scan(t) ==
  LET s == th[t].s
      q == th[t].q
      tqueue == th[t].tqueue
      prev == th[t].prev IN
  /\ ~ub /\ th[t].pc = "rm_scan"
  /\ IF tqueue = NULL
     THEN /\ qs' = [qs EXCEPT ![s].mutex = NULL]
          /\ RemoveReturn(t, th[t])
          /\ UNCHANGED <<qu, pollLog, ub>>
     ELSE IF Freed(tqueue)
     THEN /\ ub' = TRUE
          /\ UNCHANGED <<qu, qs, th, ret, pollLog>>
     ELSE IF tqueue = q
     THEN /\ qs[s].numOfQueues > -MaxUnder
          /\ qu' = [qu EXCEPT ![prev].next = qu[tqueue].next]
          /\ qs' = [qs EXCEPT ![s].current = IF @ = q THEN qu[tqueue].next ELSE @,
                              ![s].numOfQueues = @ - 1]
          /\ Goto(t, [th[t] EXCEPT !.pc = "rm_lock_queue", !.spin = @ + 1])
          /\ pollLog' = [pollLog EXCEPT ![s] = NoPolls]
          /\ UNCHANGED ub
     ELSE /\ Goto(t, [th[t] EXCEPT !.prev = tqueue, !.tqueue = qu[tqueue].next])
          /\ UNCHANGED <<qu, qs, pollLog, ub>>
  /\ UNCHANGED <<node, heap, qall, qstate, cfg, nalloc, enqLog, outLog>>

\* taosRemoveFromQset, lines 267-270: under queue->mutex, subtract and unbind;
\* tqueue is not advanced, so the loop goes on with the same queue
RemoveFromQset_unbind(t) ==
  LET s == th[t].s
      q == th[t].q IN
  /\ ~ub /\ th[t].pc = "rm_lock_queue"
  /\ qu[q].mutex = NULL
  /\ qs' = [qs EXCEPT ![s].numOfItems = @ - qu[q].numOfItems]
  /\ qu' = [qu EXCEPT ![q].qset = NULL]
  /\ Goto(t, [th[t] EXCEPT !.pc = "rm_scan"])
  /\ UNCHANGED <<node, heap, qall, qstate, ub, cfg, nalloc, enqLog, outLog, pollLog>>

----------------------------------------------------------------------------
\* queue q can be reached from set s: it is linked in the list or is the cursor
Reaches(s, q) == q \in Range(MemberList(s)) \/ qs[s].current = q

\* the caller's duty around taosCloseQueue: no other call works on the queue
\* while it is being closed
NoneClosing(s) == \A q \in Queues : qstate[q] = "closing" => ~Reaches(s, q)

ScanPcs == {"poll_cond", "poll_set", "poll_queue", "drain_cond", "drain_set", "drain_queue"}

Quiet(t, q) ==
  \A u \in Threads \ {t} :
    th[u].pc # "idle" =>
      /\ th[u].q # q
      /\ th[u].queue # q
      /\ th[u].pc \in ScanPcs => ~Reaches(th[u].s, q)

\* history for round-robin: every member of s holds an item
AllNonEmpty(s) ==
  /\ MemberList(s) # <<>>
  /\ \A k \in DOMAIN MemberList(s) : qu[MemberList(s)[k]].head # NULL

LastK(sq, k) == IF Len(sq) <= k THEN sq ELSE SubSeq(sq, Len(sq) - k + 1, Len(sq))

\* history: a pollOne call on s has returned queue x (NULL when it found nothing)
Served(s, x) ==
  IF pollLog[s].ok
  THEN [pollLog EXCEPT ![s].served = LastK(Append(@, x), Len(MemberList(s)))]
  ELSE pollLog

\* lines 293-296 and 329-332: the cursor, wrapped to the head when it is NULL
Cursor(s) == IF qs[s].current = NULL THEN qs[s].head ELSE qs[s].current

\* taosReadQitemFromQset, line 291: the loop test reads numOfQueues unlocked
ReadQitemFromQset_cond(t, s, i, plog) ==
  IF i < qs[s].numOfQueues
  THEN /\ Goto(t, [Call("poll", NULL, s) EXCEPT
                     !.pc = "poll_set", !.i = i,
                     !.pre = IF i = 0 THEN Snapshot ELSE th[t].pre])
       /\ pollLog' = plog
  ELSE /\ Return(t, "poll", NULL, s, 0, 0)
       /\ pollLog' = IF plog[s].ok
                     THEN [plog EXCEPT ![s].served = LastK(Append(@, NULL), Len(MemberList(s)))]
                     ELSE plog

\* taosReadQitemFromQset, called by a thread
taosReadQitemFromQset(t, s) ==
  /\ Begin(t, "poll") /\ s \in cfg.sets /\ NoneClosing(s)
  /\ ReadQitemFromQset_cond(t, s, 0,
       IF cfg.pre /\ AllNonEmpty(s) THEN [pollLog EXCEPT ![s].ok = TRUE] ELSE [pollLog EXCEPT ![s] = NoPolls])
  /\ UNCHANGED <<qu, qs, node, heap, qall, qstate, ub, cfg, nalloc, enqLog, outLog>>

\* taosReadQitemFromQset, line 291 after a pass that found no item
ReadQitemFromQset_next(t) ==
  /\ ~ub /\ th[t].pc = "poll_cond"
  /\ ReadQitemFromQset_cond(t, th[t].s, th[t].i, pollLog)
  /\ UNCHANGED <<qu, qs, node, heap, qall, qstate, ub, cfg, nalloc, enqLog, outLog>>

\* taosReadQitemFromQset, lines 292-298: under qset->mutex, take the cursor's
\* queue and advance the cursor
ReadQitemFromQset_set(t) ==
  LET s == th[t].s IN
  /\ ~ub /\ th[t].pc = "poll_set"
  /\ qs[s].mutex = NULL
  /\ IF Cursor(s) = NULL
     THEN /\ Return(t, "poll", NULL, s, 0, 0)
          /\ pollLog' = Served(s, NULL)
          /\ UNCHANGED <<qs, ub>>
     ELSE IF Freed(Cursor(s))
     THEN /\ ub' = TRUE
          /\ UNCHANGED <<qs, th, ret, pollLog>>
     ELSE /\ qs' = [qs EXCEPT ![s].current = qu[Cursor(s)].next]
          /\ Goto(t, [th[t] EXCEPT !.pc = "poll_queue", !.queue = Cursor(s)])
          /\ UNCHANGED <<pollLog, ub>>
  /\ UNCHANGED <<qu, node, heap, qall, qstate, cfg, nalloc, enqLog, outLog>>

\* taosReadQitemFromQset, lines 300-315: under queue->mutex, take the head node
ReadQitemFromQset_queue(t) ==
  LET s == th[t].s
      queue == th[t].queue
      pNode == qu[queue].head IN
  /\ ~ub /\ th[t].pc = "poll_queue"
  /\ qu[queue].mutex = NULL
  /\ IF pNode # NULL
     THEN /\ qu' = ReadQitemQueue(qu, queue, node)
          /\ heap' = heap \ {pNode}
          /\ qs' = AtomicAdd(qs, s, -1)
          /\ outLog' = [outLog EXCEPT ![queue] = Append(@, <<pNode, node[pNode].item>>)]
          /\ Return(t, "poll", queue, s, 1, node[pNode].item)
          /\ pollLog' = Served(s, queue)
     ELSE /\ Goto(t, [th[t] EXCEPT !.pc = "poll_cond", !.i = @ + 1, !.queue = NULL])
          /\ UNCHANGED <<qu, heap, qs, outLog, pollLog>>
  /\ UNCHANGED <<node, qall, qstate, ub, cfg, nalloc, enqLog>>

\* taosReadAllQitemsFromQset, line 327: the loop test reads numOfQueues unlocked
ReadAllQitemsFromQset_cond(t, s, i) ==
  IF i < qs[s].numOfQueues
  THEN Goto(t, [Call("drain", NULL, s) EXCEPT
                  !.pc = "drain_set", !.i = i,
                  !.pre = IF i = 0 THEN Snapshot ELSE th[t].pre])
  ELSE Return(t, "drain", NULL, s, 0, 0)

\* taosReadAllQitemsFromQset, called by a thread
taosReadAllQitemsFromQset(t, s) ==
  /\ Begin(t, "drain") /\ s \in cfg.sets /\ NoneClosing(s)
  /\ ~qall[t].live
  /\ ReadAllQitemsFromQset_cond(t, s, 0)
  /\ pollLog' = [pollLog EXCEPT ![s] = NoPolls]
  /\ UNCHANGED <<qu, qs, node, heap, qall, qstate, ub, cfg, nalloc, enqLog, outLog>>

\* taosReadAllQitemsFromQset, line 327 after a pass that found no item
ReadAllQitemsFromQset_next(t) ==
  /\ ~ub /\ th[t].pc = "drain_cond"
  /\ ReadAllQitemsFromQset_cond(t, th[t].s, th[t].i)
  /\ UNCHANGED <<qu, qs, node, heap, qall, qstate, ub, cfg, nalloc, enqLog, outLog, pollLog>>

\* taosReadAllQitemsFromQset, lines 328-334
ReadAllQitemsFromQset_set(t) ==
  LET s == th[t].s IN
  /\ ~ub /\ th[t].pc = "drain_set"
  /\ qs[s].mutex = NULL
  /\ IF Cursor(s) = NULL
     THEN /\ Return(t, "drain", NULL, s, 0, 0)
          /\ UNCHANGED <<qs, ub>>
     ELSE IF Freed(Cursor(s))
     THEN /\ ub' = TRUE
          /\ UNCHANGED <<qs, th, ret>>
     ELSE /\ qs' = [qs EXCEPT ![s].current = qu[Cursor(s)].next]
          /\ Goto(t, [th[t] EXCEPT !.pc = "drain_queue", !.queue = Cursor(s)])
          /\ UNCHANGED ub
  /\ UNCHANGED <<qu, node, heap, qall, qstate, cfg, nalloc, enqLog, outLog, pollLog>>

\* taosReadAllQitemsFromQset, lines 336-359: under queue->mutex, take the chain
ReadAllQitemsFromQset_queue(t) ==
  LET s == th[t].s
      queue == th[t].queue IN
  /\ ~ub /\ th[t].pc = "drain_queue"
  /\ qu[queue].mutex = NULL
  /\ IF qu[queue].head # NULL
     THEN \/ /\ qall' = [qall EXCEPT ![t] = NewQall(qu, queue, node)]
             /\ qu' = DetachAll(qu, queue)
             /\ qs' = AtomicAdd(qs, s, -qu[queue].numOfItems)
             /\ outLog' = [outLog EXCEPT ![queue] = @ \o Items(qu[queue].head, node)]
             /\ Return(t, "drain", queue, s, qu[queue].numOfItems, 0)
          \/ /\ cfg.nomem
             /\ qu' = AllocFailed(qu, queue)
             /\ Return(t, "drain", queue, s, -1, 0)
             /\ UNCHANGED <<qall, qs, outLog>>
     ELSE /\ Goto(t, [th[t] EXCEPT !.pc = "drain_cond", !.i = @ + 1, !.queue = NULL])
          /\ UNCHANGED <<qall, qu, qs, outLog>>
  /\ UNCHANGED <<node, heap, qstate, ub, cfg, nalloc, enqLog, pollLog>>

----------------------------------------------------------------------------
\* taosCloseQueue, lines 66-73: take the chain, clear head (before the lock),
\* lock queue->mutex
taosCloseQueue(t, q) ==
  /\ Begin(t, "close") /\ CanUse(q) /\ Quiet(t, q)
  /\ qu[q].mutex = NULL
  /\ qu' = [qu EXCEPT ![q].head = NULL, ![q].mutex = t]
  /\ qstate' = [qstate EXCEPT ![q] = "closing"]
  /\ Goto(t, [Call("close", q, qu[q].qset) EXCEPT
                 !.pc = IF qu[q].qset # NULL THEN "close_remove" ELSE "close_free",
                 !.pNode = qu[q].head, !.caller = "close",
                 !.pre = Snapshot])
  /\ UNCHANGED <<qs, node, heap, qall, ub, cfg, nalloc, enqLog, outLog, pollLog>>

\* taosCloseQueue, line 73: taosRemoveFromQset(queue->qset, queue), called
\* with queue->mutex held
CloseQueue_remove(t) ==
  /\ ~ub /\ th[t].pc = "close_remove"
  /\ RemoveFromQset_head(t, th[t].s, th[t].q, th[t])

\* taosCloseQueue, lines 75-83: free the chain, unlock, free the queue
CloseQueue_free(t) ==
  LET q == th[t].q IN
  /\ ~ub /\ th[t].pc = "close_free"
  /\ heap' = heap \ Range(Chain(th[t].pNode, node))
  /\ qu' = [qu EXCEPT ![q].mutex = NULL]
  /\ qstate' = [qstate EXCEPT ![q] = "closed"]
  /\ Return(t, "close", q, th[t].s, 0, 0)
  /\ UNCHANGED <<qs, node, qall, ub, cfg, nalloc, enqLog, outLog, pollLog>>

----------------------------------------------------------------------------
Next ==
  \E t \in Threads :
    \/ \E q \in Queues : taosWriteQitem(t, q)
    \/ \E q \in Queues : taosReadQitem(t, q)
    \/ \E q \in Queues : taosReadAllQitems(t, q)
    \/ taosGetQitem(t)
    \/ taosResetQitems(t)
    \/ taosFreeQitems(t)
    \/ \E s \in Sets, q \in Queues : AddIntoQset_check(t, s, q)
    \/ AddIntoQset_link(t)
    \/ AddIntoQset_bind(t)
    \/ \E s \in Sets, q \in Queues : taosRemoveFromQset(t, s, q)
    \/ RemoveFromQset_scan(t)
    \/ RemoveFromQset_unbind(t)
    \/ \E s \in Sets : taosReadQitemFromQset(t, s)
    \/ ReadQitemFromQset_next(t)
    \/ ReadQitemFromQset_set(t)
    \/ ReadQitemFromQset_queue(t)
    \/ \E s \in Sets : taosReadAllQitemsFromQset(t, s)
    \/ ReadAllQitemsFromQset_next(t)
    \/ ReadAllQitemsFromQset_set(t)
    \/ ReadAllQitemsFromQset_queue(t)
    \/ \E q \in Queues : taosCloseQueue(t, q)
    \/ CloseQueue_remove(t)
    \/ CloseQueue_free(t)

\* the calls that change no membership
NextQueue ==
  \E t \in Threads :
    \/ \E q \in Queues : taosWriteQitem(t, q)
    \/ \E q \in Queues : taosReadQitem(t, q)
    \/ \E q \in Queues : taosReadAllQitems(t, q)
    \/ taosGetQitem(t)
    \/ taosResetQitems(t)
    \/ taosFreeQitems(t)
    \/ \E s \in Sets : taosReadQitemFromQset(t, s)
    \/ ReadQitemFromQset_next(t)
    \/ ReadQitemFromQset_set(t)
    \/ ReadQitemFromQset_queue(t)
    \/ \E s \in Sets : taosReadAllQitemsFromQset(t, s)
    \/ ReadAllQitemsFromQset_next(t)
    \/ ReadAllQitemsFromQset_set(t)
    \/ ReadAllQitemsFromQset_queue(t)

\* the calls on a set and its queues, without the batch views
NextSet ==
  \E t \in Threads :
    \/ \E q \in Queues : taosWriteQitem(t, q)
    \/ \E q \in Queues : taosReadQitem(t, q)
    \/ \E s \in Sets, q \in Queues : AddIntoQset_check(t, s, q)
    \/ AddIntoQset_link(t)
    \/ AddIntoQset_bind(t)
    \/ \E s \in Sets, q \in Queues : taosRemoveFromQset(t, s, q)
    \/ RemoveFromQset_scan(t)
    \/ RemoveFromQset_unbind(t)
    \/ \E s \in Sets : taosReadQitemFromQset(t, s)
    \/ ReadQitemFromQset_next(t)
    \/ ReadQitemFromQset_set(t)
    \/ ReadQitemFromQset_queue(t)
    \/ \E q \in Queues : taosCloseQueue(t, q)
    \/ CloseQueue_remove(t)
    \/ CloseQueue_free(t)

\* membership changes, writes, reads and polls
NextPoll ==
  \E t \in Threads :
    \/ \E q \in Queues : taosWriteQitem(t, q)
    \/ \E q \in Queues : taosReadQitem(t, q)
    \/ \E s \in Sets, q \in Queues : AddIntoQset_check(t, s, q)
    \/ AddIntoQset_link(t)
    \/ AddIntoQset_bind(t)
    \/ \E s \in Sets, q \in Queues : taosRemoveFromQset(t, s, q)
    \/ RemoveFromQset_scan(t)
    \/ RemoveFromQset_unbind(t)
    \/ \E s \in Sets : taosReadQitemFromQset(t, s)
    \/ ReadQitemFromQset_next(t)
    \/ ReadQitemFromQset_set(t)
    \/ ReadQitemFromQset_queue(t)

\* membership changes, writes, drains through the set and releases
NextDrain ==
  \E t \in Threads :
    \/ \E q \in Queues : taosWriteQitem(t, q)
    \/ taosFreeQitems(t)
    \/ \E s \in Sets, q \in Queues : AddIntoQset_check(t, s, q)
    \/ AddIntoQset_link(t)
    \/ AddIntoQset_bind(t)
    \/ \E s \in Sets, q \in Queues : taosRemoveFromQset(t, s, q)
    \/ RemoveFromQset_scan(t)
    \/ RemoveFromQset_unbind(t)
    \/ \E s \in Sets : taosReadAllQitemsFromQset(t, s)
    \/ ReadAllQitemsFromQset_next(t)
    \/ ReadAllQitemsFromQset_set(t)
    \/ ReadAllQitemsFromQset_queue(t)

\* the whole program, two threads
Spec == Init /\ [][Next]_vars

\* membership changes and polls, one thread
SpecSet == InitSet /\ [][NextSet]_vars

\* membership changes and polls on three queues, one thread
SpecPoll == InitPoll /\ [][NextPoll]_vars

\* membership changes and drains through the set on three queues, one thread
SpecDrain == InitPoll /\ [][NextDrain]_vars

\* a consumer whose allocations may fail, one thread
SpecAlloc == InitAlloc /\ [][NextQueue]_vars

\* producers and consumers on a set whose membership is fixed, two threads
SpecQueue == InitQueue /\ [][NextQueue]_vars

----------------------------------------------------------------------------
\* Properties

Fuel == Cardinality(Queues) + 1

RECURSIVE SumItems(_, _)
SumItems(ms, Q) ==
  IF ms = <<>> THEN 0 ELSE Q[Head(ms)].numOfItems + SumItems(Tail(ms), Q)

\* no thread is inside a critical section
NoLockHeld ==
  /\ \A s \in Sets : qs[s].mutex = NULL
  /\ \A q \in Queues : qu[q].mutex = NULL

\* the state a call of thread t began in: the one kept when the call took more
\* than one step, the current one when the call is made in this step
PreOf(t, op) == IF th[t].op = op THEN th[t].pre ELSE [qu |-> qu, qs |-> qs]

\* C1: whenever no call is inside a critical section, the aggregate count of
\* each set equals the sum of the item counts of the queues in its member list.
C1_Conservation ==
  NoLockHeld =>
    \A s \in Sets : qs[s].numOfItems = SumItems(MemberList(s), qu)

\* what is enqueued is what was handed out followed by what is linked
FifoInv ==
  \A q \in Queues : enqLog[q] = outLog[q] \o Items(qu[q].head, node)

\* a step keeps FifoInv, and a taosReadQitem that returns in it gives the
\* oldest item not yet handed out, or 0 with the queue untouched
FifoStep ==
  /\ FifoInv'
  /\ \A q \in Queues :
       (ret'.op = "read" /\ ret'.q = q) =>
         IF outLog[q] = enqLog[q]
         THEN /\ ret'.code = 0
              /\ UNCHANGED <<qu, qs, node, heap, enqLog, outLog>>
         ELSE /\ ret'.code = 1
              /\ ret'.item = enqLog[q][Len(outLog[q]) + 1][2]
              /\ outLog'[q] = Append(outLog[q], enqLog[q][Len(outLog[q]) + 1])
              /\ qu'[q].numOfItems = qu[q].numOfItems - 1

\* C2: the items handed out of a queue are a prefix of the items enqueued, in
\* the order their enqueues took the queue lock, each once, and what is still
\* linked is the rest; a dequeue returns the oldest item not yet handed out,
\* and on a queue with none it returns 0 and leaves the queue as it was.
C2_Fifo == [][FifoStep]_vars

\* C2 witness: both items enqueued in a queue have been handed out and the
\* dequeue that followed returned 0
C2_Witness ==
  \E q \in Queues :
    /\ Len(enqLog[q]) >= 2
    /\ outLog[q] = enqLog[q]
    /\ ret.op = "read" /\ ret.q = q /\ ret.code = 0

\* C3: a removal finishes within a number of passes bounded by the member
\* count of the set: while it runs, it has unlinked the queue no more often
\* than the set had members when it was called.
C3_RemoveBounded ==
  \A t \in Threads :
    (th[t].op \in {"remove", "close"} /\ th[t].s # NULL /\ th[t].pre # NoPre) =>
      th[t].spin <= th[t].pre.qs[th[t].s].numOfQueues

\* a step in which taosRemoveFromQset returns leaves the queue unbound
C4_RemoveStep ==
  \A t \in Threads :
    (ret'.op = "remove" /\ ret'.t = t) =>
      LET P == PreOf(t, "remove")
          q == ret'.q
          s == ret'.s IN
      (P.qu[q].qset = s /\ q \in Range(Members(P.qs[s].head, P.qu, Fuel))) =>
        /\ qu'[q].qset = NULL
        /\ q \notin Range(Members(qs'[s].head, qu', Fuel))

\* C4: when taosRemoveFromQset(set, q) returns for a queue that was bound to
\* the set and linked in its member list, q is unbound (queue->qset is NULL)
\* and is no longer in the list, whatever its position was.
C4_RemoveUnbinds == [][C4_RemoveStep]_vars

\* thread t waits for a queue mutex that it holds itself
SelfBlocked(t) == th[t].pc = "rm_lock_queue" /\ qu[th[t].q].mutex = t

\* a step blocks no thread on its own lock, and one in which taosCloseQueue
\* returns leaves the set without the queue
C5_CloseStep ==
  \A t \in Threads :
    /\ ~SelfBlocked(t)'
    /\ (th[t].op = "close" /\ ret'.op = "close" /\ ret'.t = t /\ th[t].s # NULL) =>
         LET P == th[t].pre
             q == th[t].q
             s == th[t].s IN
         (P.qu[q].qset = s /\ q \in Range(Members(P.qs[s].head, P.qu, Fuel))) =>
           /\ q \notin Range(Members(qs'[s].head, qu', Fuel))
           /\ qs'[s].numOfQueues = P.qs[s].numOfQueues - 1
           /\ qs'[s].current # q
           /\ qs'[s].numOfItems = P.qs[s].numOfItems - P.qu[q].numOfItems

\* C5: taosCloseQueue on a queue bound to a set never waits for a lock it
\* holds, and when it returns the set's member list does not contain the
\* queue, the member count is one less, the cursor is not the queue, and the
\* aggregate is reduced by the items the queue held.
C5_CloseDetaches == [][C5_CloseStep]_vars

\* C6: while every member of a set holds an item, the latest k consecutive
\* taosReadQitemFromQset calls on a set of k members have served k distinct
\* queues, all of them members.
C6_RoundRobin ==
  \A s \in Sets :
    pollLog[s].ok =>
      LET served == pollLog[s].served IN
      /\ \A i, j \in DOMAIN served : i # j => served[i] # served[j]
      /\ Range(served) \subseteq Range(MemberList(s))

\* the member list ms in cursor order: from the cursor c on, then from the head
CursorOrder(ms, c) ==
  LET at == {k \in DOMAIN ms : ms[k] = c}
      k0 == IF at = {} THEN 1 ELSE CHOOSE k \in at : \A j \in at : k <= j IN
  SubSeq(ms, k0, Len(ms)) \o SubSeq(ms, 1, k0 - 1)

\* a step in which taosReadQitemFromQset returns gives what the members held
\* when it was called
C7_PollStep ==
  \A t \in Threads :
    (ret'.op = "poll" /\ ret'.t = t) =>
      LET P == PreOf(t, "poll")
          s == ret'.s
          order == CursorOrder(Members(P.qs[s].head, P.qu, Fuel), P.qs[s].current)
          full == {k \in DOMAIN order : P.qu[order[k]].head # NULL} IN
      IF full = {}
      THEN ret'.code = 0
      ELSE LET q == order[CHOOSE k \in full : \A j \in full : k <= j] IN
           /\ ret'.code = 1
           /\ ret'.q = q
           /\ ret'.item = node[P.qu[q].head].item
           /\ qu'[q].numOfItems = P.qu[q].numOfItems - 1
           /\ qs'[s].numOfItems = P.qs[s].numOfItems - 1

\* C7: taosReadQitemFromQset returns 0 only when every member queue is empty;
\* otherwise it returns 1 with the head item of the first non-empty member in
\* cursor order, and that queue's count and the aggregate drop by one.
C7_PollComplete == [][C7_PollStep]_vars

\* a step in which taosReadAllQitems, taosGetQitem or taosResetQitems returns
C8_DrainStep ==
  \A t \in Threads :
    /\ (ret'.op = "readall" /\ ret'.t = t) =>
         LET q == ret'.q
             N == Len(enqLog[q]) - Len(outLog[q]) IN
         IF N >= 1
         THEN /\ ret'.code = N
              /\ qu'[q].head = NULL /\ qu'[q].tail = NULL /\ qu'[q].numOfItems = 0
              /\ qall'[t].live
              /\ qall'[t].numOfItems = N
              /\ qall'[t].batch = SubSeq(enqLog[q], Len(outLog[q]) + 1, Len(enqLog[q]))
              /\ qall'[t].seen = <<>>
         ELSE /\ ret'.code = 0
              /\ ~qall'[t].live
              /\ UNCHANGED <<qu, qs, node, heap, qall, enqLog, outLog>>
    /\ (ret'.op = "getq" /\ ret'.t = t) =>
         LET v == qall[t] IN
         IF Len(v.seen) < Len(v.batch)
         THEN /\ ret'.code = 1
              /\ ret'.item = v.batch[Len(v.seen) + 1][2]
              /\ qall'[t].seen = Append(v.seen, v.batch[Len(v.seen) + 1])
         ELSE /\ ret'.code = 0
              /\ qall'[t] = v
    /\ (ret'.op = "reset" /\ ret'.t = t) =>
         /\ qall'[t].seen = <<>>
         /\ qall'[t].batch = qall[t].batch

\* C8: taosReadAllQitems on a queue of N >= 1 items returns N, empties the
\* queue and builds a view of exactly those N items, the oldest not yet handed
\* out, in FIFO order; taosGetQitem yields them in that order and then returns
\* 0, again after taosResetQitems; on an empty queue the call returns 0,
\* builds no view and changes nothing.
C8_DrainAll == [][C8_DrainStep]_vars

\* C8 witness: a view of two items has been walked to its end and the next
\* taosGetQitem returned 0
C8_Witness ==
  /\ ret.op = "getq" /\ ret.code = 0
  /\ Len(qall[ret.t].batch) >= 2
  /\ qall[ret.t].seen = qall[ret.t].batch

\* a step in which taosAddIntoQset is called on a bound queue
C9_AddStep ==
  \A t \in Threads :
    LET began == /\ th[t].pc = "idle"
                 /\ \/ ret'.op = "add" /\ ret'.t = t
                    \/ th'[t].op = "add"
        q == IF th'[t].op = "add" THEN th'[t].q ELSE ret'.q IN
    (began /\ qu[q].qset # NULL) =>
      /\ ret'.op = "add" /\ ret'.t = t /\ ret'.code = -1
      /\ UNCHANGED <<qu, qs, node, heap>>

\* C9: taosAddIntoQset on a queue that is bound to a set returns -1 and
\* changes neither the queue nor any set.
C9_AddRejected == [][C9_AddStep]_vars

\* C9 witness: a queue bound to one set was added to the other set and the
\* call returned -1
C9_Witness ==
  /\ ret.op = "add" /\ ret.code = -1
  /\ qu[ret.q].qset # NULL
  /\ qu[ret.q].qset # ret.s
  /\ ret.q \in Range(MemberList(qu[ret.q].qset))

\* the places where queue q is linked in a member list
Links(q) ==
  {<<s, k>> \in Sets \X (1..Fuel) : k \in DOMAIN MemberList(s) /\ MemberList(s)[k] = q}

\* C10: of two concurrent taosAddIntoQset calls on one queue at most one
\* links it: a queue is in the member list of at most one set, once.
C10_OneAdd == \A q \in Queues : Cardinality(Links(q)) <= 1

\* a step in which a call returns -1 because calloc returned NULL
C11_NoMemStep ==
  \A t \in Threads :
    (ret'.t = t /\ ret'.code = -1 /\ ret'.op \in {"write", "readall", "drain"}) =>
      LET P == PreOf(t, ret'.op) IN
      /\ qu' = P.qu
      /\ \A s \in Sets : qs'[s].numOfItems = P.qs[s].numOfItems
      /\ UNCHANGED <<node, heap, enqLog, outLog>>
      /\ ret'.op # "write" => ~qall'[t].live

\* C11: when the allocation of a node or of a view fails, taosWriteQitem,
\* taosReadAllQitems and taosReadAllQitemsFromQset return -1 with no view, and
\* every queue's chain and count and every set's aggregate are as they were
\* when the call began.
C11_NoPartialMutation == [][C11_NoMemStep]_vars

\* C11 witness: taosReadAllQitemsFromQset has returned -1 on a queue that
\* holds two items
C11_Witness ==
  /\ ret.op = "drain" /\ ret.code = -1
  /\ Len(Items(qu[ret.q].head, node)) >= 2

\* thread t is at a pthread_mutex_lock of a set's mutex
RequestsSet(t) == th[t].pc \in {"add_lock_set", "close_remove", "poll_set", "drain_set"}

\* the queue whose mutex thread t is about to lock, or NULL
RequestedQueue(t) ==
  IF th[t].pc \in {"add_lock_queue", "rm_lock_queue"} THEN th[t].q
  ELSE IF th[t].pc \in {"poll_queue", "drain_queue"} THEN th[t].queue
  ELSE NULL

\* C12: no thread requests a set's mutex while it holds a queue's mutex, and
\* no thread requests a mutex that it already holds: the set lock is always
\* taken first and the queue lock second.
C12_LockOrder ==
  \A t \in Threads :
    /\ RequestsSet(t) => \A q \in Queues : qu[q].mutex # t
    /\ RequestsSet(t) => qs[th[t].s].mutex # t
    /\ RequestedQueue(t) # NULL => qu[RequestedQueue(t)].mutex # t

\* the member list ms without queue q
Without(ms, q) == SelectSeq(ms, LAMBDA x : x # q)

\* a step of a taosRemoveFromQset call: while it runs it has taken the queue
\* and its items off the counters at most once, and when it returns the set is
\* as a removal that stops at the first match leaves it
C13_ScanStep ==
  \A t \in Threads :
    /\ (th'[t].op = "remove" /\ th'[t].pc # "idle") =>
         LET P == th'[t].pre
             q == th'[t].q
             s == th'[t].s IN
         /\ qs'[s].numOfQueues >= P.qs[s].numOfQueues - 1
         /\ qs'[s].numOfItems >= P.qs[s].numOfItems - P.qu[q].numOfItems
    /\ (ret'.op = "remove" /\ ret'.t = t) =>
         LET P == PreOf(t, "remove")
             q == ret'.q
             s == ret'.s
             before == Members(P.qs[s].head, P.qu, Fuel) IN
         IF q \in Range(before)
         THEN /\ Members(qs'[s].head, qu', Fuel) = Without(before, q)
              /\ qs'[s].numOfQueues = P.qs[s].numOfQueues - 1
              /\ qs'[s].numOfItems = P.qs[s].numOfItems - P.qu[q].numOfItems
         ELSE /\ qu' = P.qu
              /\ qs' = P.qs

\* C13: taosRemoveFromQset ends in the state of a removal that stops at the
\* first match, whatever the position of the queue: the queue unlinked once,
\* numOfQueues decremented once, the aggregate reduced by the queue's count
\* once, the other members kept in order; for a queue that is not in the list
\* it changes nothing.
C13_ScanHarmless == [][C13_ScanStep]_vars

\* C14: whenever the mutex of a queue is free, its head is NULL iff its tail
\* is NULL iff its count is 0, the count is the number of nodes linked from
\* the head, and the tail is the last of them.
C14_QueueShape ==
  \A q \in Queues :
    qu[q].mutex = NULL =>
      LET c == Chain(qu[q].head, node) IN
      /\ qu[q].head = NULL <=> qu[q].tail = NULL
      /\ qu[q].head = NULL <=> qu[q].numOfItems = 0
      /\ qu[q].numOfItems = Len(c)
      /\ c # <<>> => qu[q].tail = c[Len(c)]

\* C14 witness: a queue from which an item has been taken holds the item
\* enqueued behind it
C14_Witness ==
  \E q \in Queues :
    /\ outLog[q] # <<>>
    /\ qu[q].numOfItems = 1
    /\ Len(enqLog[q]) = Len(outLog[q]) + 1
    /\ qu[q].tail = qu[q].head /\ qu[q].head # NULL

\* a step in which taosReadAllQitemsFromQset returns gives the chain of the
\* first member in cursor order that held an item when it was called
C15_DrainOneStep ==
  \A t \in Threads :
    (ret'.op = "drain" /\ ret'.t = t /\ ret'.code # -1) =>
      LET P == PreOf(t, "drain")
          s == ret'.s
          ms == Members(P.qs[s].head, P.qu, Fuel)
          order == CursorOrder(ms, P.qs[s].current)
          full == {k \in DOMAIN order : P.qu[order[k]].head # NULL} IN
      IF full = {}
      THEN /\ ret'.code = 0
           /\ ~qall'[t].live
      ELSE LET q == order[CHOOSE k \in full : \A j \in full : k <= j] IN
           /\ ret'.code = P.qu[q].numOfItems
           /\ ret'.q = q
           /\ qall'[t].live
           /\ qall'[t].numOfItems = P.qu[q].numOfItems
           /\ Chain(qall'[t].current, node') = Chain(P.qu[q].head, node)
           /\ qu'[q].head = NULL /\ qu'[q].tail = NULL /\ qu'[q].numOfItems = 0
           /\ qs'[s].numOfItems = P.qs[s].numOfItems - P.qu[q].numOfItems
           /\ qs'[s].current = P.qu[q].next
           /\ \A r \in Range(ms) \ {q} : qu'[r] = P.qu[r]

\* C15: taosReadAllQitemsFromQset scans like taosReadQitemFromQset: from the
\* cursor it visits the members one by one, and on the first one that holds an
\* item it hands that queue's whole chain, in FIFO order, to a view, sets the
\* queue's count to 0, reduces the aggregate by that count, leaves the cursor
\* behind that queue and the other members unchanged; it returns 0 only when
\* every member is empty.
C15_DrainOne == [][C15_DrainOneStep]_vars

\* the structures that hold node n: the queues whose chain it is linked in
\* and the threads whose view it is linked in
Owners(n) ==
  {<<"queue", q>> : q \in {r \in Queues : n \in Range(Chain(qu[r].head, node))}}
  \cup {<<"qall", t>> : t \in {u \in Threads : qall[u].live /\ n \in Range(Chain(qall[u].start, node))}}

\* the nodes that a dequeue or a drain has handed out
HandedOut == UNION {{outLog[q][k][1] : k \in DOMAIN outLog[q]} : q \in Queues}

\* no node is held twice, a node that is held is allocated, and a node not yet
\* handed out is held by a queue
OwnedOnce ==
  \A n \in 1..nalloc :
    /\ Cardinality(Owners(n)) <= 1
    /\ Owners(n) # {} => n \in heap
    /\ n \notin HandedOut => \E q \in Queues : Owners(n) = {<<"queue", q>>}

\* a step keeps OwnedOnce; a call on a queue or a set leaves every view as
\* it was, and a call on a view leaves every queue and set as it was
C16_OwnerStep ==
  /\ OwnedOnce'
  /\ ret'.op \in {"write", "read", "readall", "poll", "drain"} =>
       \A u \in Threads :
         qall[u].live =>
           /\ qall'[u] = qall[u]
           /\ Items(qall'[u].start, node') = Items(qall[u].start, node)
           /\ Items(qall'[u].start, node') = qall[u].batch
  /\ ret'.op \in {"getq", "reset", "free"} =>
       /\ qu' = qu /\ qs' = qs
       /\ \A q \in Queues : Items(qu'[q].head, node') = Items(qu[q].head, node)

NodesFrom(sq, k) == {sq[i][1] : i \in {j \in DOMAIN sq : j >= k}}

\* a step in which taosFreeQitems returns: of the N nodes of the view, the j
\* that taosGetQitem has yielded since the view was made or reset stay
\* allocated, the other N - j are freed, and the view is gone
C17_ReleaseStep ==
  \A t \in Threads :
    (ret'.op = "free" /\ ret'.t = t) =>
      LET v == qall[t]
          j == Len(v.seen)
          all == NodesFrom(v.batch, 1)
          rest == NodesFrom(v.batch, j + 1) IN
      /\ all \subseteq heap
      /\ Cardinality(rest) = Len(v.batch) - j
      /\ heap' = heap \ rest
      /\ ~qall'[t].live

\* C17: taosFreeQitems frees exactly the nodes from the view's cursor on, and
\* the view: all N nodes of an unwalked or reset view, and only the last N - j
\* after j calls of taosGetQitem, whose first j nodes stay allocated.
C17_Release == [][C17_ReleaseStep]_vars

\* C17 witness: a view was released after one taosGetQitem; its first node
\* is still allocated and its second node is freed
C17_Witness ==
  /\ ret.op = "free"
  /\ \E n \in heap : n \in HandedOut /\ Owners(n) = {}
  /\ \E q \in Queues : \E k \in DOMAIN outLog[q] :
       /\ k > 1
       /\ outLog[q][k][1] \notin heap
       /\ outLog[q][k - 1][1] \in heap

\* C18: whenever the mutex of a set is free, the set's cursor is NULL or a
\* queue that is linked in the set's member list; it never stays on a queue
\* that was removed from the set or closed.
C18_CursorValid ==
  \A s \in Sets :
    qs[s].mutex = NULL =>
      \/ qs[s].current = NULL
      \/ qs[s].current \in Range(MemberList(s))

\* how often node n was handed out, over all queues
TimesOut(n) ==
  Cardinality({<<q, k>> \in Queues \X (1..MaxNodes + 1) :
                 k \in DOMAIN outLog[q] /\ outLog[q][k][1] = n})

\* how often node n is linked in the chains of the queues
TimesLinked(n) ==
  Cardinality({<<q, k>> \in Queues \X (1..MaxNodes + 1) :
                 k \in DOMAIN Chain(qu[q].head, node) /\ Chain(qu[q].head, node)[k] = n})

\* the views that hold node n
Views(n) == {t \in Threads : qall[t].live /\ n \in Range(Chain(qall[t].start, node))}

\* every enqueued node is either linked once, in the queue it was written
\* to, or was handed out once, by that queue; a node in a view is in one view
\* and was handed out
DeliveredOnce ==
  \A q \in Queues : \A k \in DOMAIN enqLog[q] :
    LET n == enqLog[q][k][1] IN
    /\ TimesLinked(n) + TimesOut(n) = 1
    /\ TimesLinked(n) = 1 <=> n \in Range(Chain(qu[q].head, node))
    /\ TimesOut(n) = 1 <=> enqLog[q][k] \in Range(outLog[q])
    /\ Cardinality(Views(n)) <= 1
    /\ Views(n) # {} => TimesOut(n) = 1

\* a step keeps DeliveredOnce, and a call that returns an item or a view
\* returns nodes that were linked and not handed out before
C19_DeliverStep ==
  /\ DeliveredOnce'
  /\ (ret'.op \in {"read", "poll"} /\ ret'.code = 1) =>
       \E q \in Queues : \E e \in Range(enqLog[q]) :
         /\ e[2] = ret'.item
         /\ e[1] \notin HandedOut
         /\ e[1] \in Range(Chain(qu[q].head, node))
         /\ outLog'[q] = Append(outLog[q], e)
         /\ \A r \in Queues \ {q} : outLog'[r] = outLog[r]
  /\ (ret'.op \in {"readall", "drain"} /\ ret'.code >= 1) =>
       LET got == Range(Chain(qall'[ret'.t].start, node')) IN
       /\ Cardinality(got) = ret'.code
       /\ got \cap HandedOut = {}
       /\ got = Range(Chain(qu[ret'.q].head, node))

\* C19: with concurrent producers and consumers every enqueued item is, at
\* every moment, either still linked in its queue, or handed out exactly
\* once, to one view or by one taosReadQitem or taosReadQitemFromQset; no
\* item is lost and none is handed out twice.
C19_ExactlyOnce == [][C19_DeliverStep]_vars

\* C19 witness: of the two items written to a queue, one was returned by a
\* dequeue and the other has just been handed to a view
C19_Witness ==
  \E q \in Queues, t \in Threads :
    /\ Len(outLog[q]) = 2
    /\ qall[t].live
    /\ qall[t].batch = <<outLog[q][2]>>
    /\ ret.op \in {"readall", "drain"} /\ ret.t = t /\ ret.code = 1

\* C20: numOfQueues of a set is the number of queues linked in its member
\* list whenever the set's mutex is free, and numOfQueues, the aggregate of a
\* set and the count of a queue are never negative.
C20_Counters ==
  /\ \A s \in Sets :
       /\ qs[s].mutex = NULL => qs[s].numOfQueues = Len(MemberList(s))
       /\ qs[s].numOfQueues >= 0
       /\ qs[s].numOfItems >= 0
  /\ \A q \in Queues : qu[q].numOfItems >= 0

====
